---- MODULE Spec2Model ----
(***************************************************************************)
(* State-machine model of the bitnews server core:                         *)
(*   - NewsCrawler.getMarketData (src/src/services/newsCrawler.ts), the    *)
(*     rate-limited, cached ticker client;                                 *)
(*   - ioHandler (src/src/pages/api/websocket.ts), the publication loop    *)
(*     that crawls, merges and pushes per connection.                      *)
(* Times are milliseconds, as in the source.                               *)
(***************************************************************************)
EXTENDS Integers, Sequences, FiniteSets, TLC

VARIABLES
    now,              \* Date.now()
    marketDataCache,  \* NewsCrawler.marketDataCache, a set of entries with unique symbol
    lastFetchTime,    \* NewsCrawler.lastFetchTime
    pc,               \* per caller of getMarketData: "idle", "sleeping", "fetching"
    wakeAt,           \* per caller: when its setTimeout is due
    lastRequestAt,    \* history: time of the most recent /market/tickers request, -1 if none
    lastGap,          \* history: time between the two most recent requests, capped at
                      \* MIN_FETCH_INTERVAL; -1 if fewer than two
    lastGood,         \* history: filtered result of the last well-formed successful response
    everSucceeded,    \* history: a well-formed successful response has been processed
    stampGood,        \* history: lastFetchTime was set by a well-formed successful response
    lastReturn,       \* history: the most recent return of getMarketData
    lastCall,         \* history: the most recent entry into getMarketData
    hitsSinceResp,    \* history: mappings returned from cache since the last processed response
    status,           \* per socket: "new", "connected", "disconnected"
    newsCache,        \* ioHandler's newsCache: the Map's values in insertion order
    screeningIntervals, \* ioHandler's screeningIntervals: the socket ids registered
    liveTimers,       \* socket ids whose setInterval has not been cleared
    passes,           \* per socket: the screenSymbols runs in flight, in start order
    crawl,            \* per socket and source: "idle", "crawling", "enriching", "done"
    pending,          \* per socket and source: the items processNews holds while it awaits
    emitted,          \* the socket.emit performed by the last step, None when it made none
    completed,        \* the screening pass that resolved in the last step, None otherwise
    registry,         \* the sources of the registry the server crawls
    clients,          \* the sockets that connect to the server
    applied,          \* the last application of a pure function: name, input, output
    scr,              \* the screenSymbols pass under way: position, results, outcomes
    screened,         \* what the last step of the pass did with its symbol, None otherwise
    crawlAll,         \* the crawlAllSources run under way: position, allNews, output
    htmlRun           \* the crawlHTMLPage call of the last step, None otherwise

mvars == <<marketDataCache, lastFetchTime, pc, wakeAt, lastRequestAt, lastGap,
           lastGood, everSucceeded, stampGood, lastReturn, lastCall, hitsSinceResp>>

pvars == <<status, newsCache, screeningIntervals, liveTimers, passes, crawl, pending,
           emitted, completed, registry, clients>>

xvars == <<applied, scr, screened, crawlAll, htmlRun>>

vars == <<now, mvars, pvars, xvars>>

(***************************************************************************)
(* Program constants                                                       *)
(***************************************************************************)
CACHE_DURATION == 180000

MIN_FETCH_INTERVAL == 30000

RETENTION == 86400000

HOUR == 3600000

(***************************************************************************)
(* Bounds of the model                                                     *)
(***************************************************************************)
NumCallers == 2

MaxClockSteps == 3

MaxInflight == 2

MaxDays == 1

Callers == 1..NumCallers

\* The socket.id of the connections the server sees
Sockets == {"s1", "s2"}

\* Granularity of the modelled clock: the time between two readings of Date.now()
\* is 0 (less than the limiter's interval), or a multiple of 60 s that is below
\* CACHE_DURATION or reaches it
ClockStep == 2 * MIN_FETCH_INTERVAL

\* Date.now() at process start: far enough from the epoch that
\* now - lastFetchTime (initially 0) exceeds every threshold.
StartTime == 2 * RETENTION

EndTime == StartTime + MaxClockSteps * ClockStep

\* Last instant of the day-granular clock of the publication loop
LastDay == StartTime + MaxDays * RETENTION

None == [kind |-> "none"]

\* Two entries of the source registry (lines 84-113), with their trust tier
SourceNames == {"coindesk", "blockworks"}

SourceTier(src) == IF src = "blockworks" THEN "secondary" ELSE "primary"

\* The deployments explored: two subscribers of a one-source registry, and one
\* subscriber of a two-source registry
Deployments == { <<{"coindesk"}, Sockets>>, <<SourceNames, {"s1"}>> }

(***************************************************************************)
(* Upstream ticker symbols, as sequences of tokens                         *)
(***************************************************************************)
Undefined == <<"undefined">>

BTC_USDT == <<"BTC", "_", "USDT">>

ETH_USDT == <<"ETH", "_", "USDT">>

DOGE_USDT == <<"DOGE", "_", "USDT">>

\* String.prototype.toLowerCase on one token
LowerToken(t) ==
    CASE t = "BTC" -> "btc"
      [] t = "ETH" -> "eth"
      [] t = "BNB" -> "bnb"
      [] t = "SOL" -> "sol"
      [] t = "DOT" -> "dot"
      [] t = "DOGE" -> "doge"
      [] t = "USDT" -> "usdt"
      [] t = "USDC" -> "usdc"
      [] OTHER -> t

ToLowerCase(s) == [i \in DOMAIN s |-> LowerToken(s[i])]

\* String.prototype.replace(tok, ''): only the first occurrence is removed
RECURSIVE ReplaceFirst(_, _)
ReplaceFirst(s, tok) ==
    IF s = <<>> THEN <<>>
    ELSE IF Head(s) = tok THEN Tail(s)
    ELSE <<Head(s)>> \o ReplaceFirst(Tail(s), tok)

\* Variant of ALLOW_LIST that also keeps the DOGE pair
ALLOW_LIST_Doge == {<<"btc", "usdt">>, <<"eth", "usdt">>, <<"bnb", "usdt">>,
                    <<"sol", "usdt">>, <<"dot", "usdt">>, <<"doge", "usdt">>}

ALLOW_LIST == {<<"btc", "usdt">>, <<"eth", "usdt">>, <<"bnb", "usdt">>,
               <<"sol", "usdt">>, <<"dot", "usdt">>}

EmptyMap == {}

\* Map.prototype.set
MapSet(m, k, v) == {e \in m : e.symbol # k} \cup {[symbol |-> k, lastPrice |-> v]}

BTC == [symbol |-> BTC_USDT, close |-> 1]

ETH == [symbol |-> ETH_USDT, close |-> 1]

DOGE == [symbol |-> DOGE_USDT, close |-> 1]

\* An entry without a symbol string: item.symbol.toLowerCase() throws
Malformed == [symbol |-> Undefined, close |-> 1]

\* The ticker arrays the upstream answers with
TickerLists ==
    { <<>>, <<DOGE>>, <<BTC>>, <<DOGE, BTC>>, <<BTC, ETH>>,
      <<Malformed>>, <<BTC, Malformed>>, <<BTC, Malformed, ETH>> }

\* What axios.get resolves or rejects with
Responses ==
    { [kind |-> "error", result |-> FALSE, tickers |-> <<>>],
      [kind |-> "nodata", result |-> FALSE, tickers |-> <<>>],
      [kind |-> "ok", result |-> FALSE, tickers |-> <<>>] }
    \cup { [kind |-> "ok", result |-> TRUE, tickers |-> t] : t \in TickerLists }

\* The forEach of lines 198-221: entries are stored left to right until one throws
RECURSIVE ProcessTickers(_, _)
ProcessTickers(m, items) ==
    IF items = <<>> THEN [cache |-> m, threw |-> FALSE]
    ELSE IF Head(items).symbol = Undefined THEN [cache |-> m, threw |-> TRUE]
    ELSE LET symbol == ReplaceFirst(ToLowerCase(Head(items).symbol), "_")
             baseCurrency == ReplaceFirst(symbol, "usdt")
         IN  IF symbol \in ALLOW_LIST
             THEN ProcessTickers(MapSet(m, baseCurrency, Head(items).close), Tail(items))
             ELSE ProcessTickers(m, Tail(items))

\* A response the specification counts as a successful fetch
WellFormed(r) ==
    /\ r.kind = "ok"
    /\ r.result
    /\ \A i \in DOMAIN r.tickers : r.tickers[i].symbol # Undefined

\* Variant of CacheValid that compares with the limiter's interval
CacheValid_ShortTTL(t) ==
    marketDataCache # EmptyMap /\ t - lastFetchTime < MIN_FETCH_INTERVAL

\* Line 164
CacheValid(t) == marketDataCache # EmptyMap /\ t - lastFetchTime < CACHE_DURATION

\* Variant of LimiterDelay that always sleeps the whole interval
LimiterDelay_Full(t) ==
    IF t - lastFetchTime < MIN_FETCH_INTERVAL
    THEN MIN_FETCH_INTERVAL
    ELSE 0

\* Lines 171-174: the delay of the limiter, 0 when none
LimiterDelay(t) ==
    IF t - lastFetchTime < MIN_FETCH_INTERVAL
    THEN MIN_FETCH_INTERVAL - (t - lastFetchTime)
    ELSE 0

Init ==
    /\ now = StartTime
    /\ marketDataCache = EmptyMap
    /\ lastFetchTime = 0
    /\ pc = [c \in Callers |-> "idle"]
    /\ wakeAt = [c \in Callers |-> 0]
    /\ lastRequestAt = -1
    /\ lastGap = -1
    /\ lastGood = EmptyMap
    /\ everSucceeded = FALSE
    /\ stampGood = FALSE
    /\ lastReturn = None
    /\ lastCall = None
    /\ hitsSinceResp = {}
    /\ status = [s \in Sockets |-> "new"]
    /\ newsCache = <<>>
    /\ screeningIntervals = {}
    /\ liveTimers = {}
    /\ passes = [s \in Sockets |-> <<>>]
    /\ crawl = [s \in Sockets |-> [src \in SourceNames |-> "idle"]]
    /\ pending = [s \in Sockets |-> [src \in SourceNames |-> <<>>]]
    /\ emitted = None
    /\ completed = None
    /\ \E d \in Deployments : registry = d[1] /\ clients = d[2]
    /\ applied = None
    /\ scr = [pc |-> "idle", idx |-> 1, results |-> <<>>, outcomes |-> <<>>]
    /\ screened = None
    /\ crawlAll = [pc |-> "idle", idx |-> 1, allNews |-> <<>>, got |-> <<>>,
                   failed |-> {}, uniqueNews |-> <<>>, output |-> <<>>]
    /\ htmlRun = None

\* Lines 176-190: the request is signed and sent
IssueRequest ==
    /\ lastRequestAt' = now
    /\ lastGap' = IF lastRequestAt = -1 THEN -1
                  ELSE IF now - lastRequestAt < MIN_FETCH_INTERVAL THEN now - lastRequestAt
                  ELSE MIN_FETCH_INTERVAL

\* getMarketData up to its first suspension point (lines 160-190)
Call(c) ==
    /\ pc[c] = "idle"
    /\ IF CacheValid(now)
       THEN /\ lastReturn' = [kind |-> "cached", value |-> marketDataCache]
            /\ lastCall' = [kind |-> "call", inTTL |-> now - lastFetchTime < CACHE_DURATION,
                            sinceGood |-> stampGood,
                            hadCache |-> marketDataCache # EmptyMap, path |-> "cached",
                            retCache |-> lastReturn'.value = marketDataCache]
            /\ hitsSinceResp' = hitsSinceResp \cup {marketDataCache}
            /\ UNCHANGED <<pc, wakeAt, lastRequestAt, lastGap>>
       ELSE IF LimiterDelay(now) > 0
       THEN /\ pc' = [pc EXCEPT ![c] = "sleeping"]
            /\ wakeAt' = [wakeAt EXCEPT ![c] = now + LimiterDelay(now)]
            /\ lastCall' = [kind |-> "call", inTTL |-> now - lastFetchTime < CACHE_DURATION,
                            sinceGood |-> stampGood,
                            hadCache |-> marketDataCache # EmptyMap, path |-> "sleep",
                            retCache |-> FALSE]
            /\ UNCHANGED <<lastReturn, hitsSinceResp, lastRequestAt, lastGap>>
       ELSE /\ pc' = [pc EXCEPT ![c] = "fetching"]
            /\ IssueRequest
            /\ lastCall' = [kind |-> "call", inTTL |-> now - lastFetchTime < CACHE_DURATION,
                            sinceGood |-> stampGood,
                            hadCache |-> marketDataCache # EmptyMap, path |-> "fetch",
                            retCache |-> FALSE]
            /\ UNCHANGED <<wakeAt, lastReturn, hitsSinceResp>>
    /\ UNCHANGED <<now, marketDataCache, lastFetchTime, lastGood, everSucceeded, stampGood,
                   pvars, xvars>>

\* The setTimeout of line 173 fires; lines 176-190 run
Wake(c) ==
    /\ pc[c] = "sleeping"
    /\ now >= wakeAt[c]
    /\ pc' = [pc EXCEPT ![c] = "fetching"]
    /\ wakeAt' = [wakeAt EXCEPT ![c] = 0]
    /\ IssueRequest
    /\ UNCHANGED <<now, marketDataCache, lastFetchTime, lastGood,
                   everSucceeded, stampGood, lastReturn, lastCall, hitsSinceResp, pvars, xvars>>

\* axios.get settles with r; lines 192-230 run to the return
Respond(c, r) ==
    /\ pc[c] = "fetching"
    /\ pc' = [pc EXCEPT ![c] = "idle"]
    /\ hitsSinceResp' = {}
    /\ IF r.kind # "ok"
       THEN \* rejected request, or TypeError at line 193: the catch of line 227
            /\ lastReturn' = [kind |-> "failed", value |-> marketDataCache]
            /\ UNCHANGED <<marketDataCache, lastFetchTime, stampGood>>
       ELSE LET p == IF r.result
                     THEN ProcessTickers(EmptyMap, r.tickers)
                     ELSE [cache |-> EmptyMap, threw |-> FALSE]
            IN  /\ marketDataCache' = p.cache
                /\ IF p.threw
                   THEN /\ lastReturn' = [kind |-> "failed", value |-> p.cache]
                        /\ UNCHANGED <<lastFetchTime, stampGood>>
                   ELSE /\ lastFetchTime' = now
                        /\ stampGood' = WellFormed(r)
                        /\ lastReturn' = [kind |-> IF r.result THEN "fetched" ELSE "failed",
                                          value |-> p.cache]
    /\ IF WellFormed(r)
       THEN /\ lastGood' = ProcessTickers(EmptyMap, r.tickers).cache
            /\ everSucceeded' = TRUE
       ELSE UNCHANGED <<lastGood, everSucceeded>>
    /\ UNCHANGED <<now, wakeAt, lastRequestAt, lastGap, lastCall, pvars, xvars>>

\* Time passes
Tick ==
    /\ now < EndTime
    /\ now' = now + ClockStep
    /\ UNCHANGED <<mvars, pvars, xvars>>

MarketNext ==
    \/ \E c \in Callers : Call(c)
    \/ \E c \in Callers : Wake(c)
    \/ \E c \in Callers, r \in Responses : Respond(c, r)
    \/ Tick

\* The market client is exercised alone, the server being in either deployment;
\* the deployment with both sockets is taken
MarketInit == Init /\ clients = Sockets

MarketSpec == MarketInit /\ [][MarketNext]_vars

(***************************************************************************)
(* The publication loop (websocket.ts) and the pipeline it drives          *)
(***************************************************************************)

\* Date.prototype.toISOString: one string per instant, all of one shape
ToISOString(d) == ToString(d)

\* What a feed entry carries: link (the article id), title, whether the
\* description is longer than 100 characters, the tracked assets its text
\* mentions, the publication time (date, as getTime() reads it) and the date
\* string itself (iso)
\* An entry published at time d
Entry(e, d) ==
    [id |-> e.id, title |-> e.title, longDesc |-> e.longDesc, assets |-> e.assets,
     date |-> d, iso |-> ToISOString(d)]

A == [id |-> "a", title |-> "T1", longDesc |-> FALSE, assets |-> {"btc"}]

B == [id |-> "b", title |-> "T1", longDesc |-> TRUE, assets |-> {"eth"}]

C == [id |-> "c", title |-> "T2", longDesc |-> FALSE, assets |-> {}]

\* The feeds a source can answer with at time t: entries published just now or
\* exactly RETENTION ago; the empty feed is also what a failed adapter returns
Feeds(t) ==
    { <<>>, <<Entry(A, t)>>, <<Entry(C, t)>>, <<Entry(A, t - RETENTION)>>,
      <<Entry(A, t), Entry(B, t)>> }

\* What screenSymbols resolves with
ScreenResults == {<<>>, <<"BTC">>}

\* What getMarketData resolves with during enrichment: the assets with a snapshot
MarketKeys == {{}, {"btc"}}

\* isRelevantToTargetAssets
IsRelevantToTargetAssets(item) == item.assets # {}

\* The filter of crawlRSSFeed (line 384) and of processNews (lines 546-551)
RecentAndRelevant(items, t) ==
    LET Keep(item) == item.date > t - RETENTION /\ IsRelevantToTargetAssets(item)
    IN  SelectSeq(items, Keep)

\* removeDuplicateNews: the first item of each key `${title}-${date}` is kept
RECURSIVE RemoveDuplicateNewsFrom(_, _)
RemoveDuplicateNewsFrom(news, seen) ==
    IF news = <<>> THEN <<>>
    ELSE LET key == Head(news).title \o "-" \o Head(news).iso
         IN  IF key \in seen
             THEN RemoveDuplicateNewsFrom(Tail(news), seen)
             ELSE <<Head(news)>> \o RemoveDuplicateNewsFrom(Tail(news), seen \cup {key})

RemoveDuplicateNews(news) == RemoveDuplicateNewsFrom(news, {})

\* enrichNewsWithMarketData: market data is attached when a mentioned asset has a snapshot
Enrich(item, keys) ==
    [id |-> item.id, title |-> item.title, longDesc |-> item.longDesc,
     assets |-> item.assets, date |-> item.date, iso |-> item.iso, tier |-> item.tier,
     hasMarket |-> (item.assets \cap keys # {})]

\* Variant of CalculateReliability that gives every tier the bonus of the first
CalculateReliability_FlatTier(item, t) ==
    LET desc == IF item.longDesc THEN 20 ELSE 0
        mkt == IF item.hasMarket THEN 20 ELSE 0
        age == t - item.date
        recency == IF age < HOUR THEN 20 ELSE IF age < RETENTION THEN 10 ELSE 0
        score == 40 + desc + mkt + recency
    IN  IF score < 100 THEN score ELSE 100

\* calculateReliability
CalculateReliability(item, t) ==
    LET tier == IF item.tier = "primary" THEN 40
                ELSE IF item.tier = "secondary" THEN 30 ELSE 20
        desc == IF item.longDesc THEN 20 ELSE 0
        mkt == IF item.hasMarket THEN 20 ELSE 0
        age == t - item.date
        recency == IF age < HOUR THEN 20 ELSE IF age < RETENTION THEN 10 ELSE 0
        score == tier + desc + mkt + recency
    IN  IF score < 100 THEN score ELSE 100

\* Variant of SortsBefore that puts the older of two equal scores first
SortsBefore_OldestFirst(a, b) ==
    \/ a.reliability > b.reliability
    \/ a.reliability = b.reliability /\ a.date < b.date

\* The comparator of lines 570-577 puts a before b
SortsBefore(a, b) ==
    \/ a.reliability > b.reliability
    \/ a.reliability = b.reliability /\ a.date > b.date

RECURSIVE InsertSorted(_, _)
InsertSorted(sorted, x) ==
    IF sorted = <<>> THEN <<x>>
    ELSE IF SortsBefore(x, Head(sorted)) THEN <<x>> \o sorted
    ELSE <<Head(sorted)>> \o InsertSorted(Tail(sorted), x)

\* Array.prototype.sort with that comparator (stable)
RECURSIVE SortNews(_)
SortNews(news) ==
    IF news = <<>> THEN <<>>
    ELSE InsertSorted(SortNews(SubSeq(news, 1, Len(news) - 1)), news[Len(news)])

\* processNews from line 561 on: enrich, score, sort. The field "by" is history:
\* the socket whose crawl produced the item
Finish(news, keys, t, s) ==
    LET Scored(item) ==
            LET e == Enrich(item, keys)
            IN  [id |-> e.id, title |-> e.title, longDesc |-> e.longDesc,
                 assets |-> e.assets, date |-> e.date, iso |-> e.iso, tier |-> e.tier,
                 hasMarket |-> e.hasMarket, reliability |-> CalculateReliability(e, t),
                 by |-> s]
    IN  SortNews([i \in DOMAIN news |-> Scored(news[i])])

\* newsCache.set(item.id, item): an existing key keeps its place
RECURSIVE MapPut(_, _)
MapPut(cache, item) ==
    IF cache = <<>> THEN <<item>>
    ELSE IF Head(cache).id = item.id THEN <<item>> \o Tail(cache)
    ELSE <<Head(cache)>> \o MapPut(Tail(cache), item)

\* Variant of Merge that replaces the cache by the articles just processed
Merge_Replace(cache, news) == news

\* Lines 84-86
RECURSIVE Merge(_, _)
Merge(cache, news) ==
    IF news = <<>> THEN cache
    ELSE Merge(MapPut(cache, Head(news)), Tail(news))

Ids(news) == {news[i].id : i \in DOMAIN news}

\* Variant of InitialShouldEmit that emits every result
InitialShouldEmit_Always(results) == TRUE

\* Line 49: the initial pass's result is emitted only when it is not empty
InitialShouldEmit(results) == Len(results) > 0

\* Variant of CrawlPayload that emits only the articles just processed
CrawlPayload_Processed(cache, processed) == processed

\* Lines 88-89: what a finished source crawl emits, Array.from(newsCache.values())
CrawlPayload(cache, processed) == cache

\* socket.emit(event, payload) on socket s
Emit(s, event, payload) ==
    emitted' = [kind |-> "emit", to |-> s, event |-> event, payload |-> payload,
                toConnected |-> (status[s] = "connected"), at |-> now]

\* io.on('connection') handler, lines 37-105, up to its first suspension points
Connect(s) ==
    /\ s \in clients
    /\ status[s] = "new"
    /\ status' = [status EXCEPT ![s] = "connected"]
    /\ IF Len(newsCache) > 0
       THEN emitted' = [kind |-> "emit", to |-> s, event |-> "news",
                        payload |-> newsCache, toConnected |-> TRUE, at |-> now]
       ELSE emitted' = None
    /\ passes' = [passes EXCEPT ![s] = <<"initial">>]
    /\ screeningIntervals' = screeningIntervals \cup {s}
    /\ liveTimers' = liveTimers \cup {s}
    /\ crawl' = [crawl EXCEPT ![s] =
                    [src \in SourceNames |-> IF src \in registry THEN "crawling" ELSE "idle"]]
    /\ completed' = None
    /\ UNCHANGED <<now, mvars, xvars, newsCache, pending, registry, clients>>

\* Variant of ScreenTick whose callback also restarts the crawl of every source
ScreenTick_Recrawl(s) ==
    /\ s \in liveTimers
    /\ Len(passes[s]) < MaxInflight
    /\ passes' = [passes EXCEPT ![s] = Append(@, "tick")]
    /\ crawl' = [crawl EXCEPT ![s] =
                    [src \in SourceNames |-> IF @[src] = "done" THEN "crawling" ELSE @[src]]]
    /\ emitted' = None
    /\ completed' = None
    /\ UNCHANGED <<now, mvars, xvars, status, newsCache, screeningIntervals, liveTimers,
                   pending, registry, clients>>

\* The setInterval callback of lines 60-69 starts a screening pass
ScreenTick(s) ==
    /\ s \in liveTimers
    /\ Len(passes[s]) < MaxInflight
    /\ passes' = [passes EXCEPT ![s] = Append(@, "tick")]
    /\ emitted' = None
    /\ completed' = None
    /\ UNCHANGED <<now, mvars, xvars, status, newsCache, screeningIntervals, liveTimers, crawl,
                   pending, registry, clients>>

\* The i-th screening pass in flight for s resolves (lines 48-54 or 63-65)
ScreenDone(s, i, results) ==
    /\ i \in DOMAIN passes[s]
    /\ IF passes[s][i] = "initial" => InitialShouldEmit(results)
       THEN Emit(s, "screening_results", results)
       ELSE emitted' = None
    /\ passes' = [passes EXCEPT ![s] =
                     [j \in 1..(Len(@) - 1) |-> IF j < i THEN @[j] ELSE @[j + 1]]]
    /\ completed' = [kind |-> passes[s][i], to |-> s, results |-> results]
    /\ UNCHANGED <<now, mvars, xvars, status, newsCache, screeningIntervals, liveTimers, crawl,
                   pending, registry, clients>>

\* The adapter of one source resolves with the feed's items (lines 78-80) and
\* processNews runs to its first suspension point (lines 544-561)
CrawlFetched(s, src, feed) ==
    /\ crawl[s][src] = "crawling"
    /\ LET tagged == [i \in DOMAIN feed |->
                        [id |-> feed[i].id, title |-> feed[i].title,
                         longDesc |-> feed[i].longDesc, assets |-> feed[i].assets,
                         date |-> feed[i].date, iso |-> feed[i].iso,
                         tier |-> SourceTier(src)]]
           news == RecentAndRelevant(tagged, now)
           filteredNews == RecentAndRelevant(news, now)
       IN  IF filteredNews = <<>>
           THEN \* processNews returns [] at line 554; nothing is merged
                /\ crawl' = [crawl EXCEPT ![s][src] = "done"]
                /\ Emit(s, "news", CrawlPayload(newsCache, <<>>))
                /\ UNCHANGED pending
           ELSE /\ crawl' = [crawl EXCEPT ![s][src] = "enriching"]
                /\ pending' = [pending EXCEPT ![s][src] = RemoveDuplicateNews(filteredNews)]
                /\ emitted' = None
    /\ completed' = None
    /\ UNCHANGED <<now, mvars, xvars, status, newsCache, screeningIntervals, liveTimers, passes,
                   registry, clients>>

\* getMarketData resolves inside processNews; lines 561-577, then lines 84-91
CrawlEnriched(s, src, keys) ==
    /\ crawl[s][src] = "enriching"
    /\ LET processedNews == Finish(pending[s][src], keys, now, s)
           merged == Merge(newsCache, processedNews)
       IN  /\ newsCache' = merged
           /\ Emit(s, "news", CrawlPayload(merged, processedNews))
    /\ crawl' = [crawl EXCEPT ![s][src] = "done"]
    /\ pending' = [pending EXCEPT ![s][src] = <<>>]
    /\ completed' = None
    /\ UNCHANGED <<now, mvars, xvars, status, screeningIntervals, liveTimers, passes,
                   registry, clients>>

\* Variant of Disconnect that removes the registry entry without clearInterval
Disconnect_KeepTimer(s) ==
    /\ status[s] = "connected"
    /\ status' = [status EXCEPT ![s] = "disconnected"]
    /\ screeningIntervals' = screeningIntervals \ {s}
    /\ emitted' = None
    /\ completed' = None
    /\ UNCHANGED <<now, mvars, xvars, newsCache, liveTimers, passes, crawl, pending,
                   registry, clients>>

\* The 'disconnect' handler, lines 97-105
Disconnect(s) ==
    /\ status[s] = "connected"
    /\ status' = [status EXCEPT ![s] = "disconnected"]
    /\ IF s \in screeningIntervals
       THEN /\ liveTimers' = liveTimers \ {s}
            /\ screeningIntervals' = screeningIntervals \ {s}
       ELSE UNCHANGED <<liveTimers, screeningIntervals>>
    /\ emitted' = None
    /\ completed' = None
    /\ UNCHANGED <<now, mvars, xvars, newsCache, passes, crawl, pending, registry, clients>>

\* A day passes
TickDay ==
    /\ now + RETENTION <= LastDay
    /\ now' = now + RETENTION
    /\ emitted' = None
    /\ completed' = None
    /\ UNCHANGED <<mvars, xvars, status, newsCache, screeningIntervals, liveTimers, passes, crawl,
                   pending, registry, clients>>

PubNext ==
    \/ \E s \in Sockets : Connect(s)
    \/ \E s \in Sockets : ScreenTick(s)
    \/ \E s \in Sockets, i \in 1..MaxInflight, r \in ScreenResults : ScreenDone(s, i, r)
    \/ \E s \in Sockets, src \in SourceNames, f \in Feeds(now) : CrawlFetched(s, src, f)
    \/ \E s \in Sockets, src \in SourceNames, k \in MarketKeys : CrawlEnriched(s, src, k)
    \/ \E s \in Sockets : Disconnect(s)
    \/ TickDay

PubSpec == Init /\ [][PubNext]_vars

\* The scheduling of the event loop: a live timer fires, and every pending
\* promise (screening pass, adapter, market data) settles. Connections,
\* disconnections and the passing of days are the environment's.
PubFairness ==
    /\ \A s \in Sockets : WF_vars(ScreenTick(s))
    /\ \A s \in Sockets :
          WF_vars(\E i \in 1..MaxInflight, r \in ScreenResults : ScreenDone(s, i, r))
    /\ \A s \in Sockets, src \in SourceNames :
          WF_vars(\E f \in Feeds(now) : CrawlFetched(s, src, f))
    /\ \A s \in Sockets, src \in SourceNames :
          WF_vars(\E k \in MarketKeys : CrawlEnriched(s, src, k))

PubFairSpec == Init /\ [][PubNext]_vars /\ PubFairness

(***************************************************************************)
(* Claims about the publication loop, checked under PubSpec / PubFairSpec  *)
(***************************************************************************)

\* C6 (as claimed): once a subscriber's disconnect has been handled, no 'news'
\* and no 'screening_results' event is emitted to it, not even by a screening
\* pass or a source crawl that was in flight at the disconnect.
C6_NoPushAfterDisconnect == emitted.kind = "emit" => emitted.toConnected

\* C7 (as claimed): every article carried by a 'news' event sent to S was
\* merged by a crawl run for S.
C7_SubscriberScoped ==
    (emitted.kind = "emit" /\ emitted.event = "news")
        => \A i \in DOMAIN emitted.payload : emitted.payload[i].by = emitted.to

\* C7 (amended): the keyed article cache is one cache shared by all subscribers
\* of the server: every 'news' event carries the whole content of that cache,
\* each article of which was merged by a crawl run for some subscriber that
\* has connected (the receiver or another one).
C7_SharedCache ==
    (emitted.kind = "emit" /\ emitted.event = "news")
        => /\ emitted.payload = newsCache
           /\ \A i \in DOMAIN emitted.payload :
                 /\ emitted.payload[i].by \in clients
                 /\ status[emitted.payload[i].by] # "new"

\* C7 witness: a 'news' event to one subscriber carries an article merged by a
\* crawl run for another subscriber.
C7_Witness ==
    /\ emitted.kind = "emit" /\ emitted.event = "news"
    /\ \E i \in DOMAIN emitted.payload : emitted.payload[i].by # emitted.to

\* C8 (as claimed): every article carried by a 'news' push was published less
\* than 24 hours before the push.
C8_PushedWithinRetention ==
    (emitted.kind = "emit" /\ emitted.event = "news")
        => \A i \in DOMAIN emitted.payload :
              emitted.payload[i].date > emitted.at - RETENTION

\* C9 (as claimed): when the screening pass started at connect time resolves,
\* its result is pushed to that subscriber as 'screening_results', whatever the
\* result is (an empty list included).
C9_InitialAlwaysPushed ==
    completed.kind = "initial"
        => /\ emitted.kind = "emit" /\ emitted.to = completed.to
           /\ emitted.event = "screening_results"
           /\ emitted.payload = completed.results

\* C9 (amended): when the screening pass started at connect time resolves, its
\* result is pushed to that subscriber as 'screening_results' if the result
\* list is non-empty; an empty result is not pushed.
C9_InitialPushedIfNonEmpty ==
    completed.kind = "initial"
        => IF completed.results # <<>>
           THEN /\ emitted.kind = "emit" /\ emitted.to = completed.to
                /\ emitted.event = "screening_results"
                /\ emitted.payload = completed.results
           ELSE emitted = None

\* C9 witness: an initial pass resolved with a non-empty result, which was pushed.
C9_Witness ==
    /\ completed.kind = "initial" /\ completed.results # <<>>
    /\ emitted.kind = "emit" /\ emitted.event = "screening_results"

AllCrawled(s) == \A src \in registry : crawl[s][src] = "done"

\* C10 (as claimed): for a subscriber that stays connected, after the initial
\* crawl a further crawl of the sources is eventually started again.
C10_CrawlRepeats ==
    \A s \in Sockets :
        (status[s] = "connected" /\ AllCrawled(s))
            ~> (status[s] # "connected" \/ \E src \in registry : crawl[s][src] = "crawling")

\* C10 (amended): the sources are crawled once per subscription: a crawl of a
\* source for a subscriber starts only in the step that handles its connection;
\* the only repeating per-subscriber timer drives the screening pass.
C10_CrawlOnlyAtConnect ==
    [][\A s \in Sockets, src \in SourceNames :
          (crawl[s][src] # "crawling" /\ crawl'[s][src] = "crawling")
              => (status[s] = "new" /\ status'[s] = "connected")]_vars

\* C10 witness: a subscriber is still connected, all its crawls are done, and
\* its screening timer has fired again.
C10_Witness ==
    \E s \in Sockets :
        /\ status[s] = "connected" /\ AllCrawled(s)
        /\ \E i \in DOMAIN passes[s] : passes[s][i] = "tick"

(***************************************************************************)
(* Claims about the market client, checked under MarketSpec                *)
(***************************************************************************)

\* C1 (as claimed): any two outbound /market/tickers requests are issued at
\* least 30 seconds apart, whatever the interleaving of calls and whatever
\* mix of successful and failed fetches.
C1_RequestSpacing == lastGap = -1 \/ lastGap >= MIN_FETCH_INTERVAL

\* C2 (as claimed): at most one /market/tickers request is in flight at any
\* time; callers arriving during a pending fetch or a limiter sleep do not
\* issue a request of their own.
C2_SingleFlight == Cardinality({c \in Callers : pc[c] = "fetching"}) <= 1

\* C3 (as claimed): every call made less than 3 minutes after the last
\* successful fetch returns the cache and issues no request, whatever the
\* cache holds (also when that fetch retained no allow-listed symbol).
C3_TTLUnconditional ==
    (lastCall.kind = "call" /\ lastCall.inTTL /\ lastCall.sinceGood)
        => (lastCall.path = "cached" /\ lastCall.retCache)

\* C3 (amended): every call made less than 3 minutes after the recorded last
\* fetch while the cache is non-empty returns the cache as it stands and issues
\* no request (it neither sleeps nor fetches); calls served from the cache with
\* no response processed between them return the same mapping.
C3_TTLNonEmpty ==
    /\ (lastCall.kind = "call" /\ lastCall.inTTL /\ lastCall.hadCache)
          => (lastCall.path = "cached" /\ lastCall.retCache)
    /\ Cardinality(hitsSinceResp) <= 1

\* C3 witness: a call was served from a non-empty cache inside the TTL window
\* of a well-formed successful fetch, some time after that fetch.
C3_Witness ==
    /\ lastCall.kind = "call" /\ lastCall.inTTL /\ lastCall.hadCache
    /\ lastCall.sinceGood /\ lastCall.path = "cached"
    /\ now >= lastFetchTime + MIN_FETCH_INTERVAL
    /\ hitsSinceResp # {}

\* C4 (as claimed): once a fetch has succeeded, every call returns the mapping
\* produced by the last successful fetch, however many later fetches fail
\* (transport failure or malformed response).
C4_StaleServed ==
    (everSucceeded /\ lastReturn.kind # "none") => lastReturn.value = lastGood

\* C5 (as claimed): the snapshot mapping is empty (nothing fetched yet) or
\* exactly the complete filtered result of the last successful fetch; a
\* rejected or half-processed response never leaves it cleared or partial.
C5_Wholesale == marketDataCache = lastGood

\* C14 (as claimed): whatever the outcome of the upstream request, the call
\* completes normally with a mapping, and that mapping is empty as long as no
\* fetch has succeeded.
C14_CompletesWithMapping ==
    lastReturn.kind # "none" =>
        /\ lastReturn.kind \in {"cached", "fetched", "failed"}
        /\ ~everSucceeded => lastReturn.value = EmptyMap

(***************************************************************************)
(* The adapters and crawlAllSources (newsCrawler.ts, lines 368-536)        *)
(***************************************************************************)

\* The registry entries crawlAllSources visits, in Object.entries order
SourceOrder == <<"coindesk", "binance", "kraken">>

SourceType(src) == IF src = "binance" THEN "html" ELSE "rss"

\* Titles as the feed gives them
TitleBitcoin == "Bitcoin rallies"

TitleMarkets == "Markets today"

\* The words of a title, lower-cased
TitleWords(title) ==
    IF title = TitleBitcoin THEN <<"bitcoin", "rallies">> ELSE <<"markets", "today">>

\* The raw description of a feed entry is a sequence of pieces: text outside
\* markup, or text inside one <...> tag
Text(w) == [tag |-> FALSE, word |-> w]

Tag(w) == [tag |-> TRUE, word |-> w]

\* cleanDescription: the tags are removed
CleanDescription(description) ==
    LET Outside(piece) == ~piece.tag IN SelectSeq(description, Outside)

Words(description) == [i \in DOMAIN description |-> description[i].word]

\* cryptoKeywords of findRelatedAssets and enrichNewsWithMarketData
Keywords(asset) ==
    CASE asset = "btc" -> {"btc", "bitcoin"}
      [] asset = "eth" -> {"eth", "ethereum"}
      [] asset = "bnb" -> {"bnb", "binance"}
      [] asset = "sol" -> {"sol", "solana"}
      [] asset = "dot" -> {"dot", "polkadot"}

TrackedAssets == {"btc", "eth", "bnb", "sol", "dot"}

\* findRelatedAssets over the words of a text
FindRelatedAssets(words) ==
    {a \in TrackedAssets : \E i \in DOMAIN words : words[i] \in Keywords(a)}

\* Feed entries: link, title, raw description, pubDate
RssPlain(d) ==
    [link |-> "a", title |-> TitleBitcoin, description |-> <<Text("news")>>, pubDate |-> d]

\* The only mention of an asset is inside the markup of the description
RssMarkupOnly(d) ==
    [link |-> "m", title |-> TitleMarkets,
     description |-> <<Tag("bitcoin"), Text("more")>>, pubDate |-> d]

RssIrrelevant(d) ==
    [link |-> "c", title |-> TitleMarkets, description |-> <<Text("news")>>, pubDate |-> d]

\* What axios.get(url) of a feed settles with at time t
RssOutcomes(t) ==
    { [kind |-> "error", items |-> <<>>] }
    \cup { [kind |-> "ok", items |-> f] :
             f \in { <<>>, <<RssPlain(t)>>, <<RssMarkupOnly(t)>>, <<RssIrrelevant(t)>>,
                     <<RssPlain(t - RETENTION)>>, <<RssPlain(t), RssMarkupOnly(t)>> } }

\* crawlRSSFeed, lines 375-407: the items of a parsed feed
RECURSIVE RssItems(_, _, _)
RssItems(entries, src, t) ==
    IF entries = <<>> THEN <<>>
    ELSE LET e == Head(entries)
             content == TitleWords(e.title) \o Words(e.description)
             description == CleanDescription(e.description)
             item == [id |-> e.link, title |-> e.title, longDesc |-> FALSE,
                      assets |-> FindRelatedAssets(TitleWords(e.title) \o Words(description)),
                      date |-> e.pubDate, iso |-> ToISOString(e.pubDate),
                      tier |-> SourceTier(src)]
         IN  IF e.pubDate > t - RETENTION /\ FindRelatedAssets(content) # {}
             THEN <<item>> \o RssItems(Tail(entries), src, t)
             ELSE RssItems(Tail(entries), src, t)

\* Variant of CrawlRSSFeed in which the failure of the request is not caught
CrawlRSSFeed_Propagate(outcome, src, t) ==
    IF outcome.kind = "error" THEN [news |-> <<>>, raised |-> TRUE]
    ELSE [news |-> RssItems(outcome.items, src, t), raised |-> FALSE]

\* crawlRSSFeed: a failure is caught at line 408 and [] is returned
CrawlRSSFeed(outcome, src, t) ==
    IF outcome.kind = "error" THEN [news |-> <<>>, raised |-> FALSE]
    ELSE [news |-> RssItems(outcome.items, src, t), raised |-> FALSE]

\* The <article> elements of a rendered page: title, text, time
PageArticle(d) == [title |-> TitleBitcoin, description |-> <<Text("news")>>, date |-> d]

\* How a crawlHTMLPage call goes: the step that rejects, if any, and the articles
\* of the page
HtmlOutcomes(t) ==
    { [fails |-> f, articles |-> <<>>] : f \in {"launch", "newPage", "goto", "evaluate", "close"} }
    \cup { [fails |-> "none", articles |-> a] :
             a \in { <<>>, <<PageArticle(t)>>, <<PageArticle(t - RETENTION)>> } }

\* crawlHTMLPage, lines 414-476. The function given to page.evaluate names
\* `source`, which does not exist in the page: building the object of line 436
\* for an article inside the window throws there and the evaluation rejects.
CrawlHTMLPage(outcome, src, t) ==
    LET launched == outcome.fails # "launch"
        recent == LET Recent(a) == a.date > t - RETENTION
                  IN  SelectSeq(outcome.articles, Recent)
        evaluated == outcome.fails = "none" /\ recent = <<>>
        closed == evaluated
        items == <<>>
    IN  [kind |-> "html", launched |-> launched, closed |-> closed,
         news |-> IF evaluated THEN items ELSE <<>>,
         failed |-> ~evaluated, raised |-> FALSE]

crawlAllIdle ==
    [pc |-> "idle", idx |-> 1, allNews |-> <<>>, got |-> <<>>,
     failed |-> {}, uniqueNews |-> <<>>, output |-> <<>>]

\* crawlAllSources is called
CrawlAllStart ==
    /\ crawlAll.pc \in {"idle", "returned"}
    /\ crawlAll' = [crawlAllIdle EXCEPT !.pc = "crawling"]
    /\ htmlRun' = None
    /\ UNCHANGED <<now, mvars, pvars, applied, scr, screened>>

\* Lines 509-516 after the adapter of source idx gave news: the loop goes on,
\* and after the last source the list is deduplicated before the await of line 519
AfterSource(news, didFail, raised) ==
    LET src == SourceOrder[crawlAll.idx]
        allNews == crawlAll.allNews \o news
        last == crawlAll.idx = Len(SourceOrder)
    IN  IF raised
        THEN \* only a variant of the adapters raises: the error reaches the caller
             crawlAll' = [crawlAll EXCEPT !.pc = "raised"]
        ELSE crawlAll' = [crawlAll EXCEPT
                            !.idx = @ + 1,
                            !.allNews = allNews,
                            !.got = Append(@, news),
                            !.failed = IF didFail THEN @ \cup {src} ELSE @,
                            !.pc = IF last THEN "enriching" ELSE "crawling",
                            !.uniqueNews = IF last THEN RemoveDuplicateNews(allNews) ELSE <<>>]

\* One turn of the loop of lines 503-513 for a feed source
CrawlAllRSS(outcome) ==
    /\ crawlAll.pc = "crawling"
    /\ SourceType(SourceOrder[crawlAll.idx]) = "rss"
    /\ LET r == CrawlRSSFeed(outcome, SourceOrder[crawlAll.idx], now)
       IN  AfterSource(r.news, outcome.kind = "error", r.raised)
    /\ htmlRun' = None
    /\ UNCHANGED <<now, mvars, pvars, applied, scr, screened>>

\* One turn of the loop for a rendered-page source
CrawlAllHTML(outcome) ==
    /\ crawlAll.pc = "crawling"
    /\ SourceType(SourceOrder[crawlAll.idx]) = "html"
    /\ LET r == CrawlHTMLPage(outcome, SourceOrder[crawlAll.idx], now)
       IN  /\ AfterSource(r.news, r.failed, r.raised)
           /\ htmlRun' = [kind |-> "html", launched |-> r.launched, closed |-> r.closed,
                          failed |-> r.failed]
    /\ UNCHANGED <<now, mvars, pvars, applied, scr, screened>>

\* getMarketData resolves; lines 519-535
CrawlAllEnriched(keys) ==
    /\ crawlAll.pc = "enriching"
    /\ crawlAll' = [crawlAll EXCEPT
                      !.pc = "returned",
                      !.output = Finish(crawlAll.uniqueNews, keys, now, "all")]
    /\ htmlRun' = None
    /\ UNCHANGED <<now, mvars, pvars, applied, scr, screened>>

\* crawlAllSources, and the crawl a connection starts for each source
CrawlNext ==
    \/ CrawlAllStart
    \/ \E o \in RssOutcomes(now) : CrawlAllRSS(o)
    \/ \E o \in HtmlOutcomes(now) : CrawlAllHTML(o)
    \/ \E k \in MarketKeys : CrawlAllEnriched(k)
    \/ \E s \in Sockets : Connect(s)
    \/ \E s \in Sockets, src \in SourceNames, f \in Feeds(now) : CrawlFetched(s, src, f)
    \/ \E s \in Sockets, src \in SourceNames, k \in MarketKeys : CrawlEnriched(s, src, k)

\* One subscriber of the two-source registry
CrawlInit == Init /\ clients = {"s1"}

CrawlSpec == CrawlInit /\ [][CrawlNext]_vars

(***************************************************************************)
(* Claims about the adapters and the crawl, checked under CrawlSpec        *)
(***************************************************************************)

\* C11 (as claimed): in every crawlHTMLPage call, a browser that was launched
\* has been closed when the adapter returns, on the success path and on every
\* failure path.
C11_BrowserClosed == htmlRun.kind = "html" => (htmlRun.launched => htmlRun.closed)

\* C12 (as claimed): every article in the output of crawlAllSources, and every
\* article processNews returned (they are what newsCache holds), mentions a
\* tracked asset in its title and cleaned description and is less than 24 hours
\* old when the output is produced.
C12_OutputRelevantRecent ==
    /\ crawlAll.pc = "returned" =>
          \A i \in DOMAIN crawlAll.output :
              /\ crawlAll.output[i].assets # {}
              /\ crawlAll.output[i].date > now - RETENTION
    /\ \A i \in DOMAIN newsCache :
          /\ newsCache[i].assets # {}
          /\ newsCache[i].date > now - RETENTION

\* The key by which removeDuplicateNews tells articles apart
KeyOf(item) == item.title \o "-" \o item.iso

\* C19, crawlAllSources: a failed adapter contributed the empty sequence, no
\* failure reaches the loop, the loop visits every source, and every article an
\* adapter returned is in the deduplicated list and in the output.
C19_AllSourcesIsolated ==
    /\ crawlAll.pc \in {"idle", "crawling", "enriching", "returned"}
    /\ Len(crawlAll.got) = crawlAll.idx - 1
    /\ \A k \in DOMAIN crawlAll.got :
          SourceOrder[k] \in crawlAll.failed => crawlAll.got[k] = <<>>
    /\ crawlAll.pc = "crawling" => crawlAll.idx \in DOMAIN SourceOrder
    /\ crawlAll.pc \in {"enriching", "returned"} =>
          /\ Len(crawlAll.got) = Len(SourceOrder)
          /\ \A k \in DOMAIN crawlAll.got : \A i \in DOMAIN crawlAll.got[k] :
                LET final == IF crawlAll.pc = "returned" THEN crawlAll.output
                             ELSE crawlAll.uniqueNews
                IN  \E j \in DOMAIN final : KeyOf(final[j]) = KeyOf(crawlAll.got[k][i])

\* C19, per-connection crawl: the crawl of a source can always take its next
\* step, whatever became of the other sources.
C19_ConnectionCanProceed ==
    \A s \in clients : \A src \in registry :
        /\ crawl[s][src] = "crawling" => ENABLED (\E f \in Feeds(now) : CrawlFetched(s, src, f))
        /\ crawl[s][src] = "enriching" => ENABLED (\E k \in MarketKeys : CrawlEnriched(s, src, k))

\* C19, per-connection crawl: a step of the crawl of one source leaves the
\* crawl of every other source as it was; a source that ends with the empty
\* sequence merges nothing, and every source that ends pushes 'news'.
C19_ConnectionStep ==
    \A s \in Sockets : \A src \in SourceNames :
        crawl'[s][src] # crawl[s][src] =>
            /\ \A other \in SourceNames \ {src} :
                  /\ crawl'[s][other] = crawl[s][other] \/ status[s] = "new"
                  /\ pending'[s][other] = pending[s][other]
            /\ (crawl[s][src] = "crawling" /\ crawl'[s][src] = "done") => newsCache' = newsCache
            /\ crawl'[s][src] = "done" =>
                  /\ emitted'.kind = "emit" /\ emitted'.to = s /\ emitted'.event = "news"
                  /\ emitted'.payload = newsCache'

\* C19: a failure of the feed adapter or of the rendered-page adapter for one
\* source yields an empty sequence for that source and never prevents the crawl,
\* merge and push of any other source, in crawlAllSources and in the crawl a
\* connection starts.
C19_AdapterIsolation ==
    /\ [](C19_AllSourcesIsolated /\ C19_ConnectionCanProceed)
    /\ [][C19_ConnectionStep]_vars

\* C19 witness: crawlAllSources returned articles of a source visited after a
\* source whose adapter had failed.
C19_Witness ==
    /\ crawlAll.pc = "returned"
    /\ \E k1, k2 \in DOMAIN crawlAll.got :
          /\ k1 < k2
          /\ SourceOrder[k1] \in crawlAll.failed
          /\ crawlAll.got[k2] # <<>>
          /\ \E j \in DOMAIN crawlAll.output :
                KeyOf(crawlAll.output[j]) = KeyOf(crawlAll.got[k2][1])

(***************************************************************************)
(* Pure functions applied to inputs of bounded size                        *)
(***************************************************************************)

\* Longest ticker array and longest article list the functions are applied to
MaxTickers == 2

MaxNews == 3

\* All sequences over S of length at most n
SeqsUpTo(S, n) == UNION { [1..k -> S] : k \in 0..n }

\* Upstream symbols in other spellings: lower case, no separator, two
\* separators, another separator, another quote, pair reversed
UpstreamSymbols ==
    { BTC_USDT, ETH_USDT, DOGE_USDT, Undefined,
      <<"btc", "_", "usdt">>, <<"SOL", "USDT">>, <<"BTC", "_", "_", "USDT">>,
      <<"DOT", "-", "USDT">>, <<"BNB", "_", "USDC">>, <<"USDT", "_", "BTC">> }

\* The forEach of lines 198-221 is applied to a tickers array
ApplyProcessTickers(items) ==
    /\ applied' = [kind |-> "processTickers", input |-> items,
                   output |-> ProcessTickers(EmptyMap, items)]
    /\ UNCHANGED <<now, mvars, pvars, scr, screened, crawlAll, htmlRun>>

\* Titles and date strings that contain the character the key is joined with
DedupeItems ==
    { [id |-> i, title |-> t, iso |-> d] :
        i \in {"x"}, t \in {"a", "a-b"}, d \in {"c", "b-c"} }

\* removeDuplicateNews is applied to a list of articles
ApplyRemoveDuplicateNews(news) ==
    /\ applied' = [kind |-> "removeDuplicateNews", input |-> news,
                   output |-> RemoveDuplicateNews(news)]
    /\ UNCHANGED <<now, mvars, pvars, scr, screened, crawlAll, htmlRun>>

FnNext ==
    \/ \E items \in SeqsUpTo({[symbol |-> s, close |-> 1] : s \in UpstreamSymbols}, MaxTickers) :
          ApplyProcessTickers(items)
    \/ \E news \in SeqsUpTo(DedupeItems, MaxNews) : ApplyRemoveDuplicateNews(news)

FnSpec == MarketInit /\ [][FnNext]_vars

(***************************************************************************)
(* Claims about the pure functions, checked under FnSpec                   *)
(***************************************************************************)

\* Every "_" removed from a symbol
StripSeparators(s) == LET NotSep(t) == t # "_" IN SelectSeq(s, NotSep)

\* C13: the mapping built from a response has keys only in {btc, eth, bnb, sol,
\* dot}, one entry per key, and a key is present only if the response holds the
\* pair <key>usdt once case is folded and separators are stripped; every other
\* upstream symbol is discarded.
C13_AllowList ==
    applied.kind = "processTickers" =>
        /\ \A e \in applied.output.cache :
              /\ e.symbol \in {<<"btc">>, <<"eth">>, <<"bnb">>, <<"sol">>, <<"dot">>}
              /\ \E i \in DOMAIN applied.input :
                    /\ applied.input[i].symbol # Undefined
                    /\ StripSeparators(ToLowerCase(applied.input[i].symbol))
                          = e.symbol \o <<"usdt">>
        /\ \A e1, e2 \in applied.output.cache : e1.symbol = e2.symbol => e1 = e2

\* C13 witness: a response with an allow-listed pair in an unusual spelling and
\* a pair outside the list produced a mapping with the one key.
C13_Witness ==
    /\ applied.kind = "processTickers"
    /\ \E i, j \in DOMAIN applied.input :
          /\ applied.input[i].symbol = <<"btc", "_", "usdt">>
          /\ applied.input[j].symbol = DOGE_USDT
    /\ {e.symbol : e \in applied.output.cache} = {<<"btc">>}

\* The first article of each (title, date) pair, in input order
RECURSIVE FirstOfEachPair(_, _)
FirstOfEachPair(news, seen) ==
    IF news = <<>> THEN <<>>
    ELSE LET pair == <<Head(news).title, Head(news).iso>>
         IN  IF pair \in seen THEN FirstOfEachPair(Tail(news), seen)
             ELSE <<Head(news)>> \o FirstOfEachPair(Tail(news), seen \cup {pair})

\* C16 (as claimed): removeDuplicateNews keeps, in input order, exactly the
\* first article of each distinct (title, timestamp) pair, for arbitrary title
\* and date strings: articles that differ in title or in timestamp both survive.
C16_PairDedup ==
    applied.kind = "removeDuplicateNews" =>
        applied.output = FirstOfEachPair(applied.input, {})

(***************************************************************************)
(* The limiter on a finer clock, one caller                                *)
(***************************************************************************)

\* The clock of LimiterSpec advances by MIN_FETCH_INTERVAL / FineDiv
FineDiv == 3

MaxFineSteps == 7

FineStep == MIN_FETCH_INTERVAL \div FineDiv

FineEnd == StartTime + MaxFineSteps * FineStep

FirstCaller == CHOOSE c \in Callers : TRUE

\* Time passes, and no further than the next timer that is due: a setTimeout
\* callback runs when its delay has elapsed
TickFine ==
    LET due == {wakeAt[c] : c \in {k \in Callers : pc[k] = "sleeping"}}
        step == now + FineStep
        next == IF \E w \in due : w < step
                THEN CHOOSE w \in due : \A v \in due : w <= v
                ELSE step
    IN  /\ now < FineEnd
        /\ \A w \in due : now < w
        /\ now' = next
        /\ UNCHANGED <<mvars, pvars, xvars>>

LimiterNext ==
    \/ Call(FirstCaller)
    \/ Wake(FirstCaller)
    \/ \E r \in Responses : Respond(FirstCaller, r)
    \/ TickFine

LimiterSpec == MarketInit /\ [][LimiterNext]_vars

\* C15: a call that has to fetch d < 30 s after the limiter's last recorded
\* fetch is suspended for exactly 30 s - d, issues no request while suspended
\* and issues it when the suspension ends; a call that has to fetch at
\* d >= 30 s issues its request at once.
C15_LimiterSuspension ==
    [][\A c \in Callers :
          LET d == now - lastFetchTime
          IN  /\ (pc[c] = "idle" /\ pc'[c] # "idle") =>
                    IF d < MIN_FETCH_INTERVAL
                    THEN /\ pc'[c] = "sleeping"
                         /\ wakeAt'[c] - now = MIN_FETCH_INTERVAL - d
                         /\ lastRequestAt' = lastRequestAt
                    ELSE /\ pc'[c] = "fetching"
                         /\ lastRequestAt' = now
              /\ (pc[c] = "sleeping" /\ pc'[c] = "sleeping") => lastRequestAt' = lastRequestAt
              /\ (pc[c] = "sleeping" /\ pc'[c] = "fetching") =>
                    /\ now = wakeAt[c]
                    /\ lastRequestAt' = now]_vars

\* C15 witness: a call is suspended until 30 s after the limiter's last recorded
\* fetch, with less than 30 s of the suspension left.
C15_Witness ==
    /\ pc[FirstCaller] = "sleeping"
    /\ lastCall.kind = "call" /\ lastCall.path = "sleep"
    /\ wakeAt[FirstCaller] = lastFetchTime + MIN_FETCH_INTERVAL
    /\ now > lastFetchTime
    /\ wakeAt[FirstCaller] - now < MIN_FETCH_INTERVAL

(***************************************************************************)
(* The screener: getKlineData, the two analyses and screenSymbols          *)
(* (newsCrawler.ts, lines 581-734)                                         *)
(***************************************************************************)

\* Line 675
Universe == <<"btcusdt", "ethusdt", "bnbusdt", "solusdt", "dotusdt">>

\* symbol.replace('usdt', '').toUpperCase(), line 716
ReportedName(symbol) ==
    CASE symbol = "btcusdt" -> "BTC"
      [] symbol = "ethusdt" -> "ETH"
      [] symbol = "bnbusdt" -> "BNB"
      [] symbol = "solusdt" -> "SOL"
      [] symbol = "dotusdt" -> "DOT"

\* Numbers as the arithmetic of the analyses produces them: a fraction n/d with
\* d > 0, or NaN, or an infinity
Num(n) == [k |-> "num", n |-> n, d |-> 1]

Frac(n, d) == IF d > 0 THEN [k |-> "num", n |-> n, d |-> d]
              ELSE [k |-> "num", n |-> 0 - n, d |-> 0 - d]

NaN == [k |-> "nan", n |-> 0, d |-> 1]

PosInf == [k |-> "+inf", n |-> 0, d |-> 1]

NegInf == [k |-> "-inf", n |-> 0, d |-> 1]

\* parseFloat on the strings the candles carry
ParseFloat(s) ==
    CASE s = "-30" -> Num(0 - 30)
      [] s = "-10" -> Num(0 - 10)
      [] s = "-1" -> Num(0 - 1)
      [] s = "0" -> Num(0)
      [] s = "10" -> Num(10)
      [] s = "50" -> Num(50)
      [] s = "90" -> Num(90)
      [] s = "95" -> Num(95)
      [] s = "100" -> Num(100)
      [] s = "101" -> Num(101)
      [] s = "110" -> Num(110)
      [] s = "300" -> Num(300)
      [] OTHER -> NaN

\* a / b on integers held as numbers
Divide(a, b) ==
    IF a.k = "nan" \/ b.k = "nan" THEN NaN
    ELSE IF b.n = 0
         THEN IF a.n = 0 THEN NaN ELSE IF a.n > 0 THEN PosInf ELSE NegInf
    ELSE Frac(a.n * b.d, a.d * b.n)

\* a - b and a + b
Minus(a, b) ==
    IF a.k = "nan" \/ b.k = "nan" THEN NaN ELSE Frac(a.n * b.d - b.n * a.d, a.d * b.d)

Plus(a, b) ==
    IF a.k = "nan" \/ b.k = "nan" THEN NaN ELSE Frac(a.n * b.d + b.n * a.d, a.d * b.d)

\* x * 100
Times100(x) == IF x.k = "num" THEN Frac(x.n * 100, x.d) ELSE x

\* x <= y and x >= y for a number x and an integer y
Leq(x, y) ==
    CASE x.k = "num" -> x.n <= y * x.d
      [] x.k = "-inf" -> TRUE
      [] OTHER -> FALSE

Geq(x, y) ==
    CASE x.k = "num" -> x.n >= y * x.d
      [] x.k = "+inf" -> TRUE
      [] OTHER -> FALSE

\* Math.max(...xs) and Math.min(...xs) of a non-empty list: NaN if any is NaN
RECURSIVE MathMax(_)
MathMax(xs) ==
    IF Len(xs) = 1 THEN xs[1]
    ELSE LET m == MathMax(Tail(xs))
         IN  IF xs[1].k = "nan" \/ m.k = "nan" THEN NaN
             ELSE IF xs[1].n >= m.n THEN xs[1] ELSE m

RECURSIVE MathMin(_)
MathMin(xs) ==
    IF Len(xs) = 1 THEN xs[1]
    ELSE LET m == MathMin(Tail(xs))
         IN  IF xs[1].k = "nan" \/ m.k = "nan" THEN NaN
             ELSE IF xs[1].n <= m.n THEN xs[1] ELSE m

\* One row of the klines response as getKlineData maps it (lines 605-612)
Candle(high, low, close, volume) ==
    [null |-> FALSE, high |-> high, low |-> low, close |-> close, volume |-> volume]

\* A null row: item[0] throws
NullRow == [null |-> TRUE, high |-> "", low |-> "", close |-> "", volume |-> ""]

\* The rows the upstream answers with, most recent first
KlineRows ==
    { <<>>,
      <<NullRow>>,
      <<Candle("110", "90", "100", "300"), NullRow>>,
      <<Candle("110", "90", "100", "300"), Candle("100", "95", "95", "100"),
        Candle("100", "95", "95", "100")>>,
      <<Candle("110", "90", "100", "100"), Candle("100", "95", "95", "100"),
        Candle("100", "95", "95", "100")>>,
      <<Candle("110", "90", "100", "300"), Candle("100", "95", "95", "0")>>,
      <<Candle("110", "90", "100", "300")>>,
      <<Candle("110", "50", "100", "300")>>,
      <<Candle("110", "50", "101", "300")>>,
      <<Candle("110", "90", "100", "300"), Candle("100", "10", "95", "100")>>,
      <<Candle("-10", "50", "100", "300")>>,
      <<Candle("-10", "50", "101", "300")>>,
      <<Candle("-10", "50", "101", "300"), Candle("-10", "50", "101", "100")>>,
      <<Candle("10", "abc", "0", "300")>>,
      <<Candle("10", "abc", "-1", "300")>>,
      <<Candle("10", "-10", "-30", "10"), Candle("10", "-10", "-30", "abc")>>,
      <<Candle("abc", "abc", "abc", "abc")>> }

\* What axios.get of the klines settles with
KlineOutcomes ==
    { [kind |-> "error", rows |-> <<>>], [kind |-> "badshape", rows |-> <<>>] }
    \cup { [kind |-> "ok", rows |-> r] : r \in KlineRows }

\* getKlineData: every failure, a null row included, is caught and gives []
GetKlineData(outcome) ==
    IF outcome.kind # "ok" THEN <<>>
    ELSE IF \E i \in DOMAIN outcome.rows : outcome.rows[i].null THEN <<>>
    ELSE outcome.rows

\* Variant of AnalyzePricePosition that measures the distance from the low
\* against the current price
AnalyzePricePosition_OverPrice(klineData, currentPrice) ==
    IF klineData = <<>>
    THEN [distanceFromHigh |-> Num(0), distanceFromLow |-> Num(0),
          highPrice |-> Num(0), lowPrice |-> Num(0)]
    ELSE LET highPrice == MathMax([i \in DOMAIN klineData |-> ParseFloat(klineData[i].high)])
             lowPrice == MathMin([i \in DOMAIN klineData |-> ParseFloat(klineData[i].low)])
         IN  [distanceFromHigh |-> Times100(Divide(Minus(highPrice, currentPrice), highPrice)),
              distanceFromLow |-> Times100(Divide(Minus(currentPrice, lowPrice), currentPrice)),
              highPrice |-> highPrice, lowPrice |-> lowPrice]

\* analyzePricePosition
AnalyzePricePosition(klineData, currentPrice) ==
    IF klineData = <<>>
    THEN [distanceFromHigh |-> Num(0), distanceFromLow |-> Num(0),
          highPrice |-> Num(0), lowPrice |-> Num(0)]
    ELSE LET highPrice == MathMax([i \in DOMAIN klineData |-> ParseFloat(klineData[i].high)])
             lowPrice == MathMin([i \in DOMAIN klineData |-> ParseFloat(klineData[i].low)])
         IN  [distanceFromHigh |-> Times100(Divide(Minus(highPrice, currentPrice), highPrice)),
              distanceFromLow |-> Times100(Divide(Minus(currentPrice, lowPrice), lowPrice)),
              highPrice |-> highPrice, lowPrice |-> lowPrice]

RECURSIVE SumAll(_)
SumAll(xs) == IF xs = <<>> THEN Num(0) ELSE Plus(xs[1], SumAll(Tail(xs)))

\* Variant of AnalyzeVolumeChange that averages over every candle
AnalyzeVolumeChange_AllCandles(klineData) ==
    IF Len(klineData) < 2 THEN Num(0)
    ELSE LET currentVolume == ParseFloat(klineData[1].volume)
             previousVolumes == [i \in DOMAIN klineData |-> ParseFloat(klineData[i].volume)]
             avgPreviousVolume == Divide(SumAll(previousVolumes), Num(Len(previousVolumes)))
         IN  Divide(currentVolume, avgPreviousVolume)

\* analyzeVolumeChange
AnalyzeVolumeChange(klineData) ==
    IF Len(klineData) < 2 THEN Num(0)
    ELSE LET currentVolume == ParseFloat(klineData[1].volume)
             previousVolumes == [i \in DOMAIN Tail(klineData) |->
                                    ParseFloat(Tail(klineData)[i].volume)]
             avgPreviousVolume == Divide(SumAll(previousVolumes), Num(Len(previousVolumes)))
         IN  Divide(currentVolume, avgPreviousVolume)

\* Variant of PriceCondition with strict comparisons
PriceCondition_Strict(priceAnalysis) ==
    \/ ~Geq(priceAnalysis.distanceFromHigh, 100) /\ priceAnalysis.distanceFromHigh.k # "nan"
    \/ ~Geq(priceAnalysis.distanceFromLow, 100) /\ priceAnalysis.distanceFromLow.k # "nan"

\* Line 701
PriceCondition(priceAnalysis) ==
    \/ Leq(priceAnalysis.distanceFromHigh, 100)
    \/ Leq(priceAnalysis.distanceFromLow, 100)

\* screenSymbols is called (lines 673-677)
ScreenSymbolsStart ==
    /\ scr.pc \in {"idle", "returned"}
    /\ scr' = [pc |-> "running", idx |-> 1, results |-> <<>>, outcomes |-> <<>>]
    /\ screened' = None
    /\ UNCHANGED <<now, mvars, pvars, applied, crawlAll, htmlRun>>

\* Variant of ScreenSymbolsStep in which a symbol without candles ends the pass
ScreenSymbolsStep_Break(outcome) ==
    /\ scr.pc = "running"
    /\ LET symbol == Universe[scr.idx]
           klineData == GetKlineData(outcome)
           currentPrice == IF klineData = <<>> THEN NaN ELSE ParseFloat(klineData[1].close)
           priceAnalysis == AnalyzePricePosition(klineData, currentPrice)
           volumeIncrease == AnalyzeVolumeChange(klineData)
           reported == klineData # <<>> /\ PriceCondition(priceAnalysis)
           last == scr.idx = Len(Universe) \/ klineData = <<>>
       IN  /\ scr' = [pc |-> IF last THEN "returned" ELSE "running",
                      idx |-> scr.idx + 1,
                      results |-> IF reported THEN Append(scr.results, ReportedName(symbol))
                                  ELSE scr.results,
                      outcomes |-> Append(scr.outcomes,
                                      IF klineData = <<>> THEN "skipped"
                                      ELSE IF reported THEN "reported" ELSE "excluded")]
           /\ screened' = [kind |-> "symbol", symbol |-> symbol, fetch |-> outcome.kind,
                           rows |-> outcome.rows, klineData |-> klineData,
                           reported |-> reported,
                           distanceFromHigh |-> priceAnalysis.distanceFromHigh,
                           distanceFromLow |-> priceAnalysis.distanceFromLow,
                           pricePosition |-> IF Leq(priceAnalysis.distanceFromLow, 100)
                                             THEN 0 - 1 ELSE 1,
                           volumeIncrease |-> volumeIncrease]
    /\ UNCHANGED <<now, mvars, pvars, applied, crawlAll, htmlRun>>

\* One turn of the loop of lines 679-730: the klines of the symbol arrive and
\* are analysed; after the last symbol the pass returns its results. The list
\* scr.results keeps the symbol of each record pushed at line 715; the numbers
\* of the record pushed last are in screened.
ScreenSymbolsStep(outcome) ==
    /\ scr.pc = "running"
    /\ LET symbol == Universe[scr.idx]
           klineData == GetKlineData(outcome)
           currentPrice == IF klineData = <<>> THEN NaN ELSE ParseFloat(klineData[1].close)
           priceAnalysis == AnalyzePricePosition(klineData, currentPrice)
           volumeIncrease == AnalyzeVolumeChange(klineData)
           reported == klineData # <<>> /\ PriceCondition(priceAnalysis)
           last == scr.idx = Len(Universe)
       IN  /\ scr' = [pc |-> IF last THEN "returned" ELSE "running",
                      idx |-> scr.idx + 1,
                      results |-> IF reported THEN Append(scr.results, ReportedName(symbol))
                                  ELSE scr.results,
                      outcomes |-> Append(scr.outcomes,
                                      IF klineData = <<>> THEN "skipped"
                                      ELSE IF reported THEN "reported" ELSE "excluded")]
           /\ screened' = [kind |-> "symbol", symbol |-> symbol, fetch |-> outcome.kind,
                           rows |-> outcome.rows, klineData |-> klineData,
                           reported |-> reported,
                           distanceFromHigh |-> priceAnalysis.distanceFromHigh,
                           distanceFromLow |-> priceAnalysis.distanceFromLow,
                           pricePosition |-> IF Leq(priceAnalysis.distanceFromLow, 100)
                                             THEN 0 - 1 ELSE 1,
                           volumeIncrease |-> volumeIncrease]
    /\ UNCHANGED <<now, mvars, pvars, applied, crawlAll, htmlRun>>

ScreenNext ==
    \/ ScreenSymbolsStart
    \/ \E o \in KlineOutcomes : ScreenSymbolsStep(o)

ScreenSpec == MarketInit /\ [][ScreenNext]_vars

(***************************************************************************)
(* Claims about the screener                                               *)
(***************************************************************************)

\* The integer a numeric candle field stands for
IntOf(s) == ParseFloat(s).n

IsNumeric(s) == ParseFloat(s).k = "num"

RECURSIVE MaxInt(_)
MaxInt(xs) == IF Len(xs) = 1 THEN xs[1]
              ELSE IF xs[1] >= MaxInt(Tail(xs)) THEN xs[1] ELSE MaxInt(Tail(xs))

RECURSIVE MinInt(_)
MinInt(xs) == IF Len(xs) = 1 THEN xs[1]
              ELSE IF xs[1] <= MinInt(Tail(xs)) THEN xs[1] ELSE MinInt(Tail(xs))

RECURSIVE SumInt(_)
SumInt(xs) == IF xs = <<>> THEN 0 ELSE xs[1] + SumInt(Tail(xs))

\* num / den * 100 <= 100 over the rationals, den # 0
WithinHundred(num, den) == IF den > 0 THEN num <= den ELSE num >= den

\* num / den * 100 = 100 and num / den * 100 > 100
ExactlyHundred(num, den) == num = den

BeyondHundred(num, den) == ~WithinHundred(num, den)

MaxHigh(klineData) == MaxInt([i \in DOMAIN klineData |-> IntOf(klineData[i].high)])

MinLow(klineData) == MinInt([i \in DOMAIN klineData |-> IntOf(klineData[i].low)])

CurrentClose(klineData) == IntOf(klineData[1].close)

\* Candles whose prices are numbers and whose extremes are not zero, so that
\* both distances are defined
PricesDefined(klineData) ==
    /\ klineData # <<>>
    /\ \A i \in DOMAIN klineData : IsNumeric(klineData[i].high) /\ IsNumeric(klineData[i].low)
    /\ IsNumeric(klineData[1].close)
    /\ MaxHigh(klineData) # 0
    /\ MinLow(klineData) # 0

Names(seq) == {seq[i] : i \in DOMAIN seq}

RECURSIVE ReportedOf(_, _)
ReportedOf(outcomes, i) ==
    IF i > Len(outcomes) THEN <<>>
    ELSE IF outcomes[i] = "reported"
         THEN <<ReportedName(Universe[i])>> \o ReportedOf(outcomes, i + 1)
         ELSE ReportedOf(outcomes, i + 1)

FetchGaveNothing(step) ==
    \/ step.fetch # "ok"
    \/ step.rows = <<>>
    \/ \E i \in DOMAIN step.rows : step.rows[i].null

\* C18: in a pass, a symbol whose candle fetch fails or gives no candles is
\* left out of the result, every other symbol of the universe is still
\* processed, and the pass always returns its result list.
C18_ScreenerIsolation ==
    /\ scr.pc \in {"idle", "running", "returned"}
    /\ scr.pc = "running" =>
          /\ Len(scr.outcomes) < Len(Universe)
          /\ ENABLED (\E o \in KlineOutcomes : ScreenSymbolsStep(o))
    /\ scr.pc = "returned" => Len(scr.outcomes) = Len(Universe)
    /\ scr.results = ReportedOf(scr.outcomes, 1)
    /\ (screened.kind = "symbol" /\ FetchGaveNothing(screened)) =>
          /\ scr.outcomes[Len(scr.outcomes)] = "skipped"
          /\ ReportedName(screened.symbol) \notin Names(scr.results)

\* A finished pass in which the first symbol was skipped, the second one
\* reported and the fetch of the last one failed
C18_Witness ==
    /\ scr.pc = "returned"
    /\ Len(scr.outcomes) = Len(Universe)
    /\ scr.outcomes[1] = "skipped"
    /\ scr.outcomes[2] = "reported"
    /\ screened.fetch = "error"
    /\ scr.results = <<ReportedName(Universe[2])>>

Volumes(klineData) == [i \in DOMAIN klineData |-> IntOf(klineData[i].volume)]

VolumesDefined(klineData) ==
    /\ Len(klineData) >= 2
    /\ \A i \in DOMAIN klineData : IsNumeric(klineData[i].volume)
    /\ SumInt(Tail(Volumes(klineData))) # 0

\* C20: the volume ratio is 0 for fewer than 2 candles and otherwise the
\* current volume divided by the average volume of the other candles (300
\* against 100 and 100 gives 3); a symbol with fewer than 2 candles is left
\* out or reported with volumeIncrease 0.
C20_VolumeRatio ==
    screened.kind = "symbol" =>
        LET k == screened.klineData
            v == screened.volumeIncrease
        IN  /\ (Len(k) < 2 \/ Len(screened.rows) < 2) =>
                  (~screened.reported \/ v = Num(0))
            /\ Len(k) = 0 => ~screened.reported
            /\ Len(k) = 1 => v = Num(0)
            /\ VolumesDefined(k) =>
                  /\ v.k = "num"
                  /\ v.n * SumInt(Tail(Volumes(k))) = v.d * Volumes(k)[1] * (Len(k) - 1)
            /\ (VolumesDefined(k) /\ Volumes(k) = <<300, 100, 100>>) => v.n = 3 * v.d

\* A reported symbol whose volumes are 300, 100, 100 and whose ratio is 3
C20_Witness ==
    /\ screened.kind = "symbol"
    /\ screened.reported
    /\ VolumesDefined(screened.klineData)
    /\ Volumes(screened.klineData) = <<300, 100, 100>>
    /\ screened.volumeIncrease.k = "num"
    /\ screened.volumeIncrease.n = 3 * screened.volumeIncrease.d

(***************************************************************************)
(* Scoring, enrichment and ranking applied to inputs of bounded size       *)
(***************************************************************************)

\* The trust tiers of NewsSource (line 64)
Tiers == {"primary", "secondary", "tertiary"}

\* Line 281: item.description.length > 100
LongDescription(length) == length > 100

\* Description lengths around the threshold of line 281
DescLengths == {0, 100, 101}

\* Ages around the thresholds of lines 286-287; a negative age is a date in the
\* future, which the filters of lines 384 and 550 let through
Ages == {0 - HOUR, 0, HOUR - 1, HOUR, RETENTION - 1, RETENTION}

\* An article as calculateReliability reads it: tier, description, market data, date
ScoreItem(tier, length, market, d) ==
    [id |-> "x", title |-> "T1", longDesc |-> LongDescription(length), assets |-> {"btc"},
     date |-> d, iso |-> ToISOString(d), tier |-> tier, hasMarket |-> market]

\* calculateReliability is applied to an article
ApplyCalculateReliability(tier, length, market, age) ==
    /\ applied' = [kind |-> "calculateReliability",
                   input |-> [tier |-> tier, length |-> length, market |-> market,
                              date |-> now - age],
                   at |-> now,
                   output |-> CalculateReliability(ScoreItem(tier, length, market, now - age),
                                                   now)]
    /\ UNCHANGED <<now, mvars, pvars, scr, screened, crawlAll, htmlRun>>

\* Longest article list processNews is applied to
MaxRank == 3

\* Articles that passed the filter of lines 547-551, of different tiers,
\* descriptions and ages: without market data P and R score the same, and P is
\* the newer one
RankItems(t) ==
    { [id |-> "p", title |-> "P", longDesc |-> FALSE, assets |-> {"btc"},
       date |-> t, iso |-> ToISOString(t), tier |-> "primary"],
      [id |-> "q", title |-> "Q", longDesc |-> TRUE, assets |-> {"eth"},
       date |-> t - HOUR, iso |-> ToISOString(t - HOUR), tier |-> "primary"],
      [id |-> "r", title |-> "R", longDesc |-> TRUE, assets |-> {"eth"},
       date |-> t - HOUR, iso |-> ToISOString(t - HOUR), tier |-> "secondary"],
      [id |-> "u", title |-> "U", longDesc |-> FALSE, assets |-> {"eth"},
       date |-> t, iso |-> ToISOString(t), tier |-> "secondary"] }

\* processNews from line 557 on (crawlAllSources from line 515 on): the list
\* is deduplicated, enriched, scored and sorted
ApplyProcessNews(news, keys) ==
    /\ LET uniqueNews == RemoveDuplicateNews(news)
       IN  applied' = [kind |-> "processNews", input |-> news, unique |-> uniqueNews,
                       keys |-> keys, at |-> now,
                       output |-> Finish(uniqueNews, keys, now, "s1")]
    /\ UNCHANGED <<now, mvars, pvars, scr, screened, crawlAll, htmlRun>>

\* The keys of cryptoKeywords in Object.entries order (lines 240-246)
AssetOrder == <<"btc", "eth", "bnb", "sol", "dot">>

\* Map.prototype.has and Map.prototype.get on the snapshot mapping
MapHas(m, k) == \E e \in m : e.symbol = k

MapGet(m, k) == CHOOSE e \in m : e.symbol = k

\* The loop of lines 249-267 from the i-th asset of the table on: the market
\* data the article gets, None when the loop ends without a return
RECURSIVE EnrichFrom(_, _, _)
EnrichFrom(i, titleAndDesc, marketData) ==
    IF i > Len(AssetOrder) THEN None
    ELSE LET symbol == AssetOrder[i]
         IN  IF /\ \E w \in DOMAIN titleAndDesc : titleAndDesc[w] \in Keywords(symbol)
                /\ MapHas(marketData, <<symbol>>)
             THEN [kind |-> "marketData", symbol |-> symbol,
                   data |-> MapGet(marketData, <<symbol>>)]
             ELSE EnrichFrom(i + 1, titleAndDesc, marketData)

\* Variant of EnrichNewsWithMarketData that looks only at the first asset mentioned
EnrichNewsWithMarketData_FirstMention(titleAndDesc, marketData) ==
    LET mentioned == {i \in DOMAIN AssetOrder :
                         \E w \in DOMAIN titleAndDesc : titleAndDesc[w] \in Keywords(AssetOrder[i])}
        first == CHOOSE i \in mentioned : \A j \in mentioned : i <= j
    IN  IF mentioned = {} THEN None
        ELSE IF MapHas(marketData, <<AssetOrder[first]>>)
             THEN [kind |-> "marketData", symbol |-> AssetOrder[first],
                   data |-> MapGet(marketData, <<AssetOrder[first]>>)]
             ELSE None

\* enrichNewsWithMarketData on one article, given the words of its title and
\* description: the marketData field it returns the article with
EnrichNewsWithMarketData(titleAndDesc, marketData) == EnrichFrom(1, titleAndDesc, marketData)

\* Texts that mention none, one or several assets, not always in table order
EnrichTexts ==
    { <<"markets", "today">>, <<"bitcoin", "rallies">>, <<"ethereum", "and", "bitcoin">>,
      <<"solana", "beats", "eth">>, <<"polkadot">>, <<"binance", "lists", "sol", "dot">> }

\* The snapshot mappings getMarketData can resolve with: one price per asset
Snapshots ==
    SUBSET { [symbol |-> <<"btc">>, lastPrice |-> 1], [symbol |-> <<"eth">>, lastPrice |-> 2],
             [symbol |-> <<"sol">>, lastPrice |-> 3], [symbol |-> <<"dot">>, lastPrice |-> 4] }

\* enrichNewsWithMarketData is applied to an article and a mapping
ApplyEnrichNewsWithMarketData(titleAndDesc, marketData) ==
    /\ applied' = [kind |-> "enrichNewsWithMarketData", input |-> titleAndDesc,
                   marketData |-> marketData,
                   output |-> EnrichNewsWithMarketData(titleAndDesc, marketData)]
    /\ UNCHANGED <<now, mvars, pvars, scr, screened, crawlAll, htmlRun>>

ScoreNext ==
    \/ \E tier \in Tiers, length \in DescLengths, market \in BOOLEAN, age \in Ages :
          ApplyCalculateReliability(tier, length, market, age)
    \/ \E news \in SeqsUpTo(RankItems(now), MaxRank), keys \in MarketKeys :
          ApplyProcessNews(news, keys)
    \/ \E text \in EnrichTexts, m \in Snapshots : ApplyEnrichNewsWithMarketData(text, m)

ScoreSpec == MarketInit /\ [][ScoreNext]_vars

(***************************************************************************)
(* Claims about scoring, enrichment and ranking, checked under ScoreSpec   *)
(***************************************************************************)

\* The score the claim gives: tier bonus, description, market data, recency
ClaimedScore(tier, length, market, age) ==
    LET bonus == CASE tier = "primary" -> 40
                   [] tier = "secondary" -> 30
                   [] tier = "tertiary" -> 20
        sum == bonus + (IF length > 100 THEN 20 ELSE 0) + (IF market THEN 20 ELSE 0)
                 + (IF age < 3600000 THEN 20 ELSE IF age < 24 * 3600000 THEN 10 ELSE 0)
    IN  IF sum > 100 THEN 100 ELSE sum

\* C21: the score is min(100, tier bonus 40/30/20 + 20 for a description longer
\* than 100 characters + 20 for attached market data + 20 if less than an hour
\* old, else 10 if less than 24 hours old); it lies in 0..100 and, the other
\* factors fixed, score(tertiary) <= score(secondary) <= score(primary).
C21_ReliabilityScore ==
    applied.kind = "calculateReliability" =>
        LET i == applied.input
            ScoreOf(tier) ==
                CalculateReliability(ScoreItem(tier, i.length, i.market, i.date), applied.at)
        IN  /\ applied.output = ClaimedScore(i.tier, i.length, i.market, applied.at - i.date)
            /\ applied.output \in 0..100
            /\ ScoreOf(i.tier) = applied.output
            /\ ScoreOf("tertiary") <= ScoreOf("secondary")
            /\ ScoreOf("secondary") <= ScoreOf("primary")

\* A primary article with a long description, market data and less than an
\* hour old scores exactly 100
C21_Witness ==
    /\ applied.kind = "calculateReliability"
    /\ applied.input.tier = "primary"
    /\ applied.input.length = 101
    /\ applied.input.market
    /\ applied.at - applied.input.date = HOUR - 1
    /\ applied.output = 100

\* out is ordered by descending reliability, equal scores by descending date
Ranked(out) ==
    \A i, j \in DOMAIN out :
        i < j => \/ out[i].reliability > out[j].reliability
                 \/ /\ out[i].reliability = out[j].reliability
                    /\ out[i].date >= out[j].date

\* C22: the list returned is a permutation of the deduplicated, enriched
\* articles, ordered by descending reliability score, articles of equal score
\* by descending publication time.
C22_Ranking ==
    applied.kind = "processNews" =>
        LET out == applied.output
            u == applied.unique
        IN  /\ Len(out) = Len(u)
            /\ \E p \in [DOMAIN out -> DOMAIN u] :
                  /\ \A i, j \in DOMAIN out : i # j => p[i] # p[j]
                  /\ \A i \in DOMAIN out :
                        /\ out[i].id = u[p[i]].id
                        /\ out[i].title = u[p[i]].title
                        /\ out[i].date = u[p[i]].date
                        /\ out[i].tier = u[p[i]].tier
                        /\ out[i].hasMarket = (u[p[i]].assets \cap applied.keys # {})
                        /\ out[i].reliability = CalculateReliability(out[i], applied.at)
            /\ Ranked(out)

\* Three articles came out in another order than they went in: two of equal
\* score with the newer one first, then one of lower score
C22_Witness ==
    /\ applied.kind = "processNews"
    /\ Len(applied.output) = 3
    /\ applied.unique[1].id # applied.output[1].id
    /\ applied.output[1].reliability = applied.output[2].reliability
    /\ applied.output[1].date > applied.output[2].date
    /\ applied.output[2].reliability > applied.output[3].reliability

\* The place of an asset in the table order the claim gives
TableRank(asset) ==
    CASE asset = "btc" -> 1
      [] asset = "eth" -> 2
      [] asset = "bnb" -> 3
      [] asset = "sol" -> 4
      [] asset = "dot" -> 5

\* The assets a text mentions that have a snapshot in the mapping m
MentionedWithSnapshot(text, m) ==
    {a \in FindRelatedAssets(text) : \E e \in m : e.symbol = <<a>>}

\* C24: the article gets the snapshot of exactly one asset, the first in table
\* order (btc, eth, bnb, sol, dot) that its text mentions and the mapping
\* holds; it gets no market data when no mentioned asset has a snapshot.
C24_MarketEnrichment ==
    applied.kind = "enrichNewsWithMarketData" =>
        LET have == MentionedWithSnapshot(applied.input, applied.marketData)
            out == applied.output
        IN  /\ have = {} => out = None
            /\ have # {} =>
                  /\ out.kind = "marketData"
                  /\ out.symbol \in have
                  /\ \A a \in have : TableRank(out.symbol) <= TableRank(a)
                  /\ out.data \in applied.marketData
                  /\ out.data.symbol = <<out.symbol>>
            /\ (out # None) =
                  Enrich([id |-> "x", title |-> "T1", longDesc |-> FALSE,
                          assets |-> FindRelatedAssets(applied.input), date |-> now,
                          iso |-> ToISOString(now), tier |-> "primary"],
                         {e.symbol[1] : e \in applied.marketData}).hasMarket

\* An article that mentions Binance, Solana and Polkadot, with snapshots of
\* Bitcoin, Solana and Polkadot: it got the Solana one
C24_Witness ==
    /\ applied.kind = "enrichNewsWithMarketData"
    /\ applied.input = <<"binance", "lists", "sol", "dot">>
    /\ {e.symbol : e \in applied.marketData} = {<<"sol">>, <<"dot">>, <<"btc">>}
    /\ applied.output.kind = "marketData"
    /\ applied.output.symbol = "sol"
    /\ applied.output.data.lastPrice = 3

\* Candles with positive prices whose most recent close is not above its high
WellFormedCandles(klineData) ==
    /\ klineData # <<>>
    /\ \A i \in DOMAIN klineData :
          /\ IsNumeric(klineData[i].high) /\ IntOf(klineData[i].high) > 0
          /\ IsNumeric(klineData[i].low) /\ IntOf(klineData[i].low) > 0
          /\ IsNumeric(klineData[i].close) /\ IntOf(klineData[i].close) > 0
    /\ IntOf(klineData[1].close) <= IntOf(klineData[1].high)

Pushed(s, k) ==
    /\ completed.kind = k
    /\ completed.to = s
    /\ emitted.kind = "emit"
    /\ emitted.event = "screening_results"

\* C25 (as claimed, for the pass started first): once the result of a timer
\* pass has been pushed to a subscriber while its initial pass, started
\* earlier, was still running, the result of the initial pass is never pushed
\* to it afterwards.
C25_PushesInStartOrder ==
    \A s \in Sockets :
        []((Pushed(s, "tick") /\ \E i \in DOMAIN passes[s] : passes[s][i] = "initial")
              => [](~Pushed(s, "initial")))

\* C28: the socket ids with a registered screening interval are the connected
\* sockets, each with its one live interval; the interval of a disconnected
\* socket is cleared, its entry is removed and no tick fires for it.
C28_TimerRegistry ==
    /\ screeningIntervals = {s \in Sockets : status[s] = "connected"}
    /\ liveTimers = screeningIntervals
    /\ \A s \in Sockets : status[s] # "connected" => ~ENABLED ScreenTick(s)

\* One socket has disconnected and lost its interval while the interval of
\* another, still connected, has fired
C28_Witness ==
    \E s, t \in Sockets :
        /\ status[s] = "disconnected"
        /\ s \notin screeningIntervals
        /\ s \notin liveTimers
        /\ status[t] = "connected"
        /\ t \in screeningIntervals
        /\ \E i \in DOMAIN passes[t] : passes[t][i] = "tick"

(***************************************************************************)
(* The merge into newsCache when the sources carry different articles      *)
(***************************************************************************)

\* A third relevant entry, with a title of its own
D == [id |-> "d", title |-> "T2", longDesc |-> TRUE, assets |-> {"eth"}]

\* The feeds of this part: A and B are the same story (same title, same time)
\* under two links, D is another story
MergeFeeds(t) ==
    { <<>>, <<Entry(A, t)>>, <<Entry(B, t)>>, <<Entry(D, t)>>, <<Entry(A, t), Entry(D, t)>> }

\* Connections and their per-source crawls (lines 37-44 and 74-95)
MergeNext ==
    \/ \E s \in Sockets : Connect(s)
    \/ \E s \in Sockets, src \in SourceNames, f \in MergeFeeds(now) : CrawlFetched(s, src, f)
    \/ \E s \in Sockets, src \in SourceNames, k \in MarketKeys : CrawlEnriched(s, src, k)

MergeSpec == Init /\ [][MergeNext]_vars

(***************************************************************************)
(* Claims about the merge, checked under MergeSpec                         *)
(***************************************************************************)

\* What a step does to the cache and what it pushes
C23_Step ==
    /\ Ids(newsCache) \subseteq Ids(newsCache')
    /\ \A i, j \in DOMAIN newsCache' : newsCache'[i].id = newsCache'[j].id => i = j
    /\ \A s \in Sockets, src \in SourceNames :
          (crawl[s][src] = "enriching" /\ crawl'[s][src] = "done") =>
             /\ \E k \in MarketKeys :
                   LET processedNews == Finish(pending[s][src], k, now, s)
                   IN  /\ newsCache' = Merge(newsCache, processedNews)
                       /\ Merge(newsCache', processedNews) = newsCache'
                       /\ Ids(newsCache') = Ids(newsCache) \cup Ids(processedNews)
             /\ emitted'.kind = "emit"
             /\ emitted'.event = "news"
             /\ emitted'.payload = newsCache'

\* C23: the merge is keyed by article id: merging the same articles again
\* leaves the cache unchanged, the set of ids in the cache never shrinks, and
\* the 'news' push after a source completes carries every article merged so far.
C23_IdempotentUnion == [][C23_Step]_vars

\* A push after the second source of a subscriber completed carries the
\* article of that source and the article merged before
C23_Witness ==
    /\ emitted.kind = "emit"
    /\ emitted.event = "news"
    /\ emitted.payload = newsCache
    /\ Ids(newsCache) = {"a", "d"}
    /\ \E s \in Sockets : \A src \in SourceNames : crawl[s][src] = "done"

\* C26 (as claimed): no 'news' push carries two articles with the same (title,
\* timestamp) pair, also when they come from different sources, were processed
\* by separate processNews calls and are cached under different ids.
C26_PushedDeduplicated ==
    (emitted.kind = "emit" /\ emitted.event = "news") =>
        \A i, j \in DOMAIN emitted.payload :
            (/\ emitted.payload[i].title = emitted.payload[j].title
             /\ emitted.payload[i].iso = emitted.payload[j].iso) => i = j

\* C29 (as claimed): the list carried by every 'news' event is ordered by
\* descending reliability score, equal scores by descending publication time,
\* after any number of merges.
C29_PushedRanked ==
    (emitted.kind = "emit" /\ emitted.event = "news") => Ranked(emitted.payload)

\* Every step of the program
Next ==
    \/ MarketNext \/ PubNext \/ CrawlNext \/ FnNext \/ LimiterNext \/ ScreenNext
    \/ ScoreNext \/ MergeNext

Spec == Init /\ [][Next]_vars

====
